---- MODULE Spec2Model ----
(***************************************************************************)
(* Feature-flag checks of the Humanyzer frontend.                          *)
(*                                                                         *)
(* The client-side feature flag service keeps a module-level cache of      *)
(* status verdicts (featureFlagCache) with a TTL, reads through it in      *)
(* isFeatureEnabled, and clears it after every successful admin mutation.  *)
(* Every `await` of the service is a suspension point: calls interleave    *)
(* at those points, and only there.  The flag store behind /api is not     *)
(* part of the frontend; it is modelled from its contract.                 *)
(***************************************************************************)
EXTENDS Integers, FiniteSets, Sequences, TLC

(* ---------------------------------------------------------------- bounds *)
\* Date.now() advances MaxTicks times, half a TTL each time (Tick, below)
MaxTicks == 2
\* how many calls of the service (isFeatureEnabled, admin mutations) a run makes
MaxCalls == 3

Flags == {"beta", "dark"}
Users == {"U1", "U2"}
\* the principals the store lets mutate flags
Admins == {"U1"}
\* the users the admin sets overrides for
OverrideUsers == {"U1"}
\* the isFeatureEnabled call slots: one call at a time, overlapping with the
\* admin mutation call, the store and the environment at each await
Reads == {1}

NoToken == "null"
NoUser == "none"
Absent == "absent"

(* ------------------------------------------------------- service constants *)
CACHE_TTL == 5 * 60 * 1000
Tick == CACHE_TTL \div 2

CacheKey(flagKey) == <<"feature_flag", flagKey>>

VARIABLES
  now,              \* Date.now()
  authToken,        \* what getAuthToken() yields: the signed-in user's token or null
  featureFlagCache, \* the service's cache object: cacheKey -> {enabled, timestamp}
  flagStore,        \* store: flag key -> Absent, or the verdict of its definition
  overrideStore,    \* store: <<flag key, user>> -> Absent, or the override's value
  reads,            \* the isFeatureEnabled calls
  mut,              \* the admin mutation call
  made,             \* history: the number of service calls made so far
  list,             \* the getAllFeatureFlags call
  manager,          \* FeatureFlagManager: the component's useState values
  handlers,         \* FeatureFlagManager: its asynchronous handlers under way
  shown,            \* history: <<error kind, text shown to the admin>>
  clicks,           \* history: the number of user events of the admin panel
  engine,           \* evaluate's inputs and, once applied, its verdict
  tierView,         \* SubscriptionTierManager: the component's useState values
  gate,             \* FeatureGate: its props and useState values
  gateCache,        \* FeatureGate.jsx: the module's own featureFlagCache
  checks,           \* FeatureGate: the runs of checkFeatureFlag
  gateEvents,       \* history: the number of changes the gate has seen
  staticGate,       \* env.config.ts and FeatureGate.tsx: environment, props, drawing
  auth,             \* AuthService: its fields, localStorage and its calls
  notes             \* NotificationProvider: the list and what is saved of it

svcVars == <<now, authToken, featureFlagCache, flagStore, overrideStore, reads, mut>>
listVars == <<list>>
mgrVars == <<manager, handlers, shown, clicks>>
evalVars == <<engine>>
tierVars == <<tierView>>
gateVars == <<gate, gateCache, checks, gateEvents>>
\* the modules beside the flag service: static gate, AuthService, notifications
appVars == <<staticGate, auth, notes>>

\* the state outside the status checks and the admin mutations
viewVars == <<listVars, mgrVars, evalVars, tierVars, gateVars, appVars>>
\* the state outside the list call
nonList == <<svcVars, made, mgrVars, evalVars, tierVars, gateVars, appVars>>
\* the state the admin panel leaves alone (its writes clear the service cache)
nonMgr == <<now, authToken, flagStore, overrideStore, reads, mut, made, listVars,
           evalVars, tierVars, gateVars, appVars>>
\* the state outside the engine, and outside the tier view
nonEngine == <<svcVars, made, listVars, mgrVars, tierVars, gateVars, appVars>>
nonTier == <<svcVars, made, listVars, mgrVars, evalVars, gateVars, appVars>>
\* the state outside the gate
nonGate == <<svcVars, made, listVars, mgrVars, evalVars, tierVars, appVars>>
\* the state outside the modules beside the flag service
nonApp == <<svcVars, made, listVars, mgrVars, evalVars, tierVars, gateVars>>

vars == <<svcVars, made, viewVars>>

(* ------------------------------------------------------------- the cache *)
EmptyCache == [k \in {} |-> FALSE]

\* (variant: an entry exactly TTL old still counts as fresh)
CacheFreshInclusive(cache, cacheKey, t) ==
  /\ cacheKey \in DOMAIN cache
  /\ (t - cache[cacheKey].timestamp) <= CACHE_TTL

\* line 22: cachedValue && (Date.now() - cachedValue.timestamp) < CACHE_TTL
CacheFresh(cache, cacheKey, t) ==
  /\ cacheKey \in DOMAIN cache
  /\ (t - cache[cacheKey].timestamp) < CACHE_TTL

\* lines 43-46: featureFlagCache[cacheKey] = { enabled, timestamp }
\* (owner is history: the user whose token the verdict was resolved for)
CachePut(cache, cacheKey, enabled, t, owner) ==
  [k \in DOMAIN cache \cup {cacheKey} |->
     IF k = cacheKey
     THEN [enabled |-> enabled, timestamp |-> t, owner |-> owner]
     ELSE cache[k]]

\* (variant: the loop deletes nothing)
clearFeatureFlagCacheKeepsAll(cache) == cache

\* lines 61-65: delete every key of the cache object
clearFeatureFlagCache(cache) ==
  [k \in DOMAIN cache \ DOMAIN cache |-> cache[k]]


(* ------------------------------------------------- isFeatureEnabled (code) *)
NoResponse == [threw |-> FALSE, ok |-> FALSE, enabled |-> FALSE]

IdleRead ==
  [pc |-> "idle", flagKey |-> "beta", token |-> NoToken, response |-> NoResponse,
   result |-> FALSE, threw |-> FALSE, via |-> "none"]

\* what a finished call leaves: the promise's value (or rejection) and, as
\* history, where the value came from: "cache", "server" or "fail"
Returned(flagKey, value, via) ==
  [pc |-> "done", flagKey |-> flagKey, token |-> NoToken, response |-> NoResponse,
   result |-> value, threw |-> FALSE, via |-> via]

\* (variant: the catch block rethrows)
CaughtRethrows(flagKey) ==
  [Returned(flagKey, FALSE, "fail") EXCEPT !.threw = TRUE]

\* lines 52-55: catch (error) { console.error(...); return false; }
Caught(flagKey) == Returned(flagKey, FALSE, "fail")

\* lines 27-37: token = await getAuthToken(); if (!token) return false; fetch(...)
AfterToken(rd, token, tokenThrows) ==
  IF tokenThrows THEN Caught(rd.flagKey)
  ELSE IF token = NoToken THEN Returned(rd.flagKey, FALSE, "fail")
  ELSE [rd EXCEPT !.pc = "fetch", !.token = token]

\* (variant: fail-open, a failed fetch answers with the last cached value)
AfterResponseFailOpen(rd, bodyThrows) ==
  IF ~rd.response.threw /\ rd.response.ok /\ ~bodyThrows
  THEN Returned(rd.flagKey, rd.response.enabled, "server")
  ELSE IF CacheKey(rd.flagKey) \in DOMAIN featureFlagCache
       THEN Returned(rd.flagKey, featureFlagCache[CacheKey(rd.flagKey)].enabled, "cache")
       ELSE Returned(rd.flagKey, FALSE, "fail")

\* lines 39-51 (and the catch): what the call returns once fetch has settled
AfterResponse(rd, bodyThrows) ==
  IF rd.response.threw THEN Caught(rd.flagKey)
  ELSE IF rd.response.ok
       THEN IF bodyThrows THEN Caught(rd.flagKey)
            ELSE Returned(rd.flagKey, rd.response.enabled, "server")
       ELSE Returned(rd.flagKey, FALSE, "fail")

\* (variant: a failed check is cached too, as disabled)
WritesCacheOnFailure(rd, bodyThrows) == TRUE

\* lines 42-46: the cache is written only on the response.ok path
WritesCache(rd, bodyThrows) ==
  /\ ~rd.response.threw
  /\ rd.response.ok
  /\ ~bodyThrows

(* ------------------------------------------------- admin mutations (code) *)
Ops == {"createFeatureFlag", "updateFeatureFlag", "deleteFeatureFlag",
        "createFeatureOverride", "deleteFeatureOverride"}
FlagOps == {"createFeatureFlag", "updateFeatureFlag", "deleteFeatureFlag"}
OverrideOps == {"createFeatureOverride", "deleteFeatureOverride"}

\* the functions that `await response.json()` before they clear the cache
\* (lines 122, 162, 236); the two delete functions clear right away (200, 275)
ParsesBody(op) ==
  op \in {"createFeatureFlag", "updateFeatureFlag", "createFeatureOverride"}

IdleMutation ==
  [pc |-> "idle", op |-> "deleteFeatureFlag", flagKey |-> "beta", userId |-> NoUser,
   enabled |-> FALSE, token |-> NoToken, answer |-> "none",
   outcome |-> "none", cleared |-> {}]

\* answer is what fetch settled with: "none" (not yet, or never sent), "ok",
\* "threw" (fetch rejected) or the kind of the store's non-OK answer.
\* a settled call: outcome is "resolved" or "rejected" (the promise threw);
\* cleared is history, the cache keys its clearFeatureFlagCache() deleted
Settled(m, outcome, cleared) ==
  [m EXCEPT !.pc = "done", !.token = NoToken, !.outcome = outcome,
            !.cleared = cleared]

\* token = await getAuthToken(); if (!token) throw new Error('Not authenticated')
\* (lines 106-110, 146-150, 185-189, 220-224, 260-264) and the rethrowing catch
MutationAfterToken(m, token, tokenThrows) ==
  IF tokenThrows \/ token = NoToken THEN Settled(m, "rejected", {})
  ELSE [m EXCEPT !.pc = "fetch", !.token = token]

\* if (response.ok) { [await response.json();] clearFeatureFlagCache(); return }
\* throw new Error(...)   (lines 121-134, 161-174, 198-209, 235-248, 273-284)
MutationSucceeds(m, bodyThrows) ==
  /\ m.answer = "ok"
  /\ ~(ParsesBody(m.op) /\ bodyThrows)

\* (variant: the cache is cleared whatever the store answered)
CacheClearedRegardless(cache, m, bodyThrows) == clearFeatureFlagCache(cache)

CacheAfterMutation(cache, m, bodyThrows) ==
  IF MutationSucceeds(m, bodyThrows) THEN clearFeatureFlagCache(cache) ELSE cache

\* (variant: the `throw new Error(...)` after the if is missing)
MutationAfterResponseNoThrow(m, bodyThrows, cache) ==
  Settled(m, "resolved", DOMAIN cache \ DOMAIN CacheAfterMutation(cache, m, bodyThrows))

\* (variant: a failed request is sent again)
MutationAfterResponseRetries(m, bodyThrows, cache) ==
  IF MutationSucceeds(m, bodyThrows)
  THEN Settled(m, "resolved", DOMAIN cache \ DOMAIN CacheAfterMutation(cache, m, bodyThrows))
  ELSE [m EXCEPT !.pc = "fetch", !.answer = "none"]

MutationAfterResponse(m, bodyThrows, cache) ==
  IF MutationSucceeds(m, bodyThrows)
  THEN Settled(m, "resolved", DOMAIN cache \ DOMAIN CacheAfterMutation(cache, m, bodyThrows))
  ELSE Settled(m, "rejected", DOMAIN cache \ DOMAIN CacheAfterMutation(cache, m, bodyThrows))

(* ------------------------------------------------ the flag store (contract) *)
On(v) == v = "on"
Stored(b) == IF b THEN "on" ELSE "off"

\* GET status(flagKey) for the token's principal: an override wins over the
\* definition; an unknown flag is a non-OK answer
StoreStatus(flags, overrides, flagKey, user) ==
  IF flags[flagKey] = Absent
  THEN [threw |-> FALSE, ok |-> FALSE, enabled |-> FALSE]
  ELSE [threw |-> FALSE, ok |-> TRUE,
        enabled |-> IF <<flagKey, user>> \in DOMAIN overrides
                       /\ overrides[<<flagKey, user>>] # Absent
                    THEN On(overrides[<<flagKey, user>>])
                    ELSE On(flags[flagKey])]

\* the store's answer to a write: admin-only (Forbidden); DuplicateKey on
\* create, NotFound on update/delete of an unknown flag; overrides are
\* upserted and deleting an absent one is no error
StoreAnswer(flags, m) ==
  IF m.token \notin Admins THEN "Forbidden"
  ELSE IF m.op = "createFeatureFlag" /\ flags[m.flagKey] # Absent THEN "DuplicateKey"
  ELSE IF m.op \in {"updateFeatureFlag", "deleteFeatureFlag"} /\ flags[m.flagKey] = Absent
       THEN "NotFound"
  ELSE "ok"

StoreAccepts(flags, m) == StoreAnswer(flags, m) = "ok"

FlagsAfter(flags, m) ==
  CASE m.op \in {"createFeatureFlag", "updateFeatureFlag"} ->
         [flags EXCEPT ![m.flagKey] = Stored(m.enabled)]
    [] m.op = "deleteFeatureFlag" -> [flags EXCEPT ![m.flagKey] = Absent]
    [] OTHER -> flags

OverridesAfter(overrides, m) ==
  CASE m.op = "createFeatureOverride" ->
         [overrides EXCEPT ![<<m.flagKey, m.userId>>] = Stored(m.enabled)]
    [] m.op = "deleteFeatureOverride" ->
         [overrides EXCEPT ![<<m.flagKey, m.userId>>] = Absent]
    [] m.op = "deleteFeatureFlag" ->
         [p \in DOMAIN overrides |-> IF p[1] = m.flagKey THEN Absent ELSE overrides[p]]
    [] OTHER -> overrides

(* ------------------------------------------------ getAllFeatureFlags (code) *)
NoList == [threw |-> FALSE, ok |-> FALSE, flags |-> [k \in Flags |-> Absent]]

IdleList ==
  [pc |-> "idle", token |-> NoToken, response |-> NoList,
   result |-> [k \in Flags |-> Absent], outcome |-> "none"]

\* a settled call: outcome "resolved" with the returned list, or "rejected"
ListSettled(outcome, flags) ==
  [IdleList EXCEPT !.pc = "done", !.result = flags, !.outcome = outcome]

\* lines 74-84: token = await getAuthToken(); if (!token) throw ...; fetch(...)
ListAfterToken(l, token, tokenThrows) ==
  IF tokenThrows \/ token = NoToken THEN ListSettled("rejected", NoList.flags)
  ELSE [l EXCEPT !.pc = "fetch", !.token = token]

\* (variant: the list is put together from the flags the verdict cache knows)
ListAfterResponseFromCache(l, bodyThrows) ==
  ListSettled("resolved",
    [k \in Flags |->
       IF CacheKey(k) \in DOMAIN featureFlagCache
       THEN Stored(featureFlagCache[CacheKey(k)].enabled)
       ELSE Absent])

\* lines 86-95: if (response.ok) { data = await response.json(); return data.flags }
\* throw new Error(...); the catch logs and rethrows
ListAfterResponse(l, bodyThrows) ==
  IF ~l.response.threw /\ l.response.ok /\ ~bodyThrows
  THEN ListSettled("resolved", l.response.flags)
  ELSE ListSettled("rejected", NoList.flags)

\* GET /api/feature-flags: the definitions the store holds now, for admins only
StoreList(flags, user) ==
  IF user \in Admins
  THEN [threw |-> FALSE, ok |-> TRUE, flags |-> flags]
  ELSE NoList

(* ------------------------------------------- FeatureFlagManager (code) *)
\* an optional value: <<>> is JavaScript's NaN, null or '' and <<v>> is v
None == <<>>
Some(v) == <<v>>

\* how far the admin's date inputs reach (days), and how many user events
\* of the admin panel a run makes
MaxDay == 2
MaxClicks == 4

NoError == None
NoFlag == "null"
MsPerDay == 24 * 60 * 60 * 1000

Digits == <<"0", "1", "2", "3", "4", "5", "6", "7", "8", "9">>
IsDigit(c) == \E i \in DOMAIN Digits : Digits[i] = c
DigitValue(c) == (CHOOSE i \in DOMAIN Digits : Digits[i] = c) - 1

RECURSIVE DigitsPrefix(_)
DigitsPrefix(text) ==
  IF text = <<>> \/ ~IsDigit(Head(text)) THEN <<>>
  ELSE <<Head(text)>> \o DigitsPrefix(Tail(text))

RECURSIVE Decimal(_, _)
Decimal(ds, acc) ==
  IF ds = <<>> THEN acc ELSE Decimal(Tail(ds), acc * 10 + DigitValue(Head(ds)))

\* line 71: parseInt(value, 10): an optional sign, then the longest run of
\* digits; NaN when there is no digit
parseInt(text) ==
  LET signed == text # <<>> /\ Head(text) \in {"-", "+"}
      ds == DigitsPrefix(IF signed THEN Tail(text) ELSE text)
  IN IF ds = <<>> THEN None
     ELSE IF signed /\ Head(text) = "-" THEN Some(0 - Decimal(ds, 0))
     ELSE Some(Decimal(ds, 0))

\* what the admin may leave in the rollout field (a number input hands over
\* '' or the text of a number)
PercentTexts ==
  {<<>>, <<"5", "0">>, <<"1", "5", "0">>, <<"-", "5">>, <<"7", ".", "5">>}

\* what a date input hands over: '' or a day
DateTexts == {None} \cup {Some(d) : d \in 1..MaxDay}

\* lines 148-149: value ? new Date(value).toISOString() : null
toISOString(date) == IF date = None THEN None ELSE Some(date[1] * MsPerDay)

\* lines 28-38, 110-120: the form as useState and handleCreateNew set it
InitialForm ==
  [percentage_rollout |-> Some(100), start_date |-> None, end_date |-> None]

\* lines 146-150: the data handleSubmit hands to the service
PreparedData(formData) ==
  [percentage_rollout |-> formData.percentage_rollout,
   start_date |-> toISOString(formData.start_date),
   end_date |-> toISOString(formData.end_date)]

\* lines 363-372: the rollout input is type="number" min="0" max="100" and
\* not required: the browser submits the form when the field is empty or
\* holds a number of that range
PercentFieldValid(v) == IF v = None THEN TRUE ELSE (0 <= v[1] /\ v[1] <= 100)

\* lines 19-38: the component after its first render; the mount effect (46-62)
\* has called getAllFeatureFlags
IdleManager ==
  [flags |-> {}, loading |-> TRUE, error |-> NoError, selectedFlag |-> NoFlag,
   isEditing |-> FALSE, isCreating |-> FALSE, isManagingOverrides |-> FALSE,
   formData |-> InitialForm]

NoData == [percentage_rollout |-> None, start_date |-> None, end_date |-> None]

IdleSubmit == [pc |-> "idle", isCreating |-> FALSE, data |-> NoData]
IdleDelete == [pc |-> "idle", key |-> NoFlag, selectedFlag |-> NoFlag]

IdleHandlers == [mount |-> "listing", submit |-> IdleSubmit, del |-> IdleDelete]

\* lines 239-241: while loading with an empty list only "Loading..." is drawn
UiShown(m) == ~(m.loading /\ m.flags = {})

\* lines 291, 416: one of the two flag forms is drawn
FormShown(m) ==
  /\ UiShown(m)
  /\ (m.isCreating \/ (m.isEditing /\ m.selectedFlag # NoFlag))

\* lines 54, 170, 231: the texts setError is called with
LoadFailedText == <<"Failed to load feature flags. Please try again.">>
FailedText(verb) == <<"Failed to", verb, "feature flag. Please try again.">>

\* (variant: the catch shows the message of the error the service threw)
SubmitCaughtShowsKind(m, isCreating, err) ==
  [m EXCEPT !.error = err, !.loading = FALSE]

\* lines 169-174: catch (err) { setError(`Failed to ${isCreating ? ...}`) }
\* finally { setLoading(false) }; err goes to the console only
SubmitCaught(m, isCreating, err) ==
  [m EXCEPT !.error = FailedText(IF isCreating THEN "create" ELSE "update"),
            !.loading = FALSE]

\* lines 230-235
DeleteCaught(m, err) ==
  [m EXCEPT !.error = FailedText("delete"), !.loading = FALSE]

\* part_002 lines 131, 171, 206: throw new Error(`Error ...: ${response.statusText}`)
\* (the status text stands for the store's error kind), 'Not authenticated'
\* (108, 148, 187), or what fetch rejected with
ServiceError(doing, answer) ==
  IF answer \in {"Not authenticated", "NetworkError"} THEN <<answer>>
  ELSE <<"Error", doing, "feature flag:", answer>>

\* the error kinds of the store's contract
ErrorKinds == {"DuplicateKey", "NotFound", "ConstraintViolation", "Forbidden"}

\* the definition invariants of the contract
ValidDefinition(data) ==
  IF data.percentage_rollout = None THEN FALSE
  ELSE /\ 0 <= data.percentage_rollout[1]
       /\ data.percentage_rollout[1] <= 100
       /\ IF data.start_date = None \/ data.end_date = None THEN TRUE
          ELSE data.start_date[1] <= data.end_date[1]

\* how a write call of the service can settle: without a request, with a
\* failed fetch, or with the store's answer
WriteAnswers(op, data) ==
  {"Not authenticated", "NetworkError", "Forbidden"}
    \cup (IF op \in {"create", "update"} /\ ~ValidDefinition(data)
          THEN {"ConstraintViolation"}
          ELSE {"ok"} \cup (IF op = "create" THEN {"DuplicateKey"} ELSE {"NotFound"}))

\* the definitions the store lists: they keep the contract's invariants
ListedForms ==
  {f \in [percentage_rollout : {Some(50)}, start_date : DateTexts, end_date : DateTexts] :
     ValidDefinition(PreparedData(f))}

(* ------------------------------------------- ResolutionEngine (contract) *)
Tiers == {"free", "basic", "pro", "enterprise"}
NoTier == "null"

\* the ordinal of a subscription tier: free < basic < pro < enterprise
TierOrder == <<"free", "basic", "pro", "enterprise">>
TierOrdinal(tier) == CHOOSE i \in DOMAIN TierOrder : TierOrder[i] = tier

\* the stable bucket of (flag.key, principal.userId) in [0, 100)
Bucket(key, userId) ==
  CASE userId = "U1" -> IF key = "beta" THEN 30 ELSE 55
    [] OTHER -> IF key = "beta" THEN 70 ELSE 5

\* the override of (flag.key, principal.userId): None, or Some(its value)
OverrideFor(overrides, userId) ==
  IF overrides[userId] = Absent THEN None ELSE Some(On(overrides[userId]))

InWindow(flag, t) ==
  /\ IF flag.startDate = None THEN TRUE ELSE flag.startDate[1] <= t
  /\ IF flag.endDate = None THEN TRUE ELSE t <= flag.endDate[1]

TierBlocks(flag, principal) ==
  IF flag.minSubscriptionTier = NoTier THEN FALSE
  ELSE TierOrdinal(principal.subscriptionTier) < TierOrdinal(flag.minSubscriptionTier)

\* (variant: the kill switch is looked at before the override)
evaluateKillSwitchFirst(flag, override, principal, t) ==
  IF ~flag.enabled THEN FALSE
  ELSE IF override # None THEN override[1]
  ELSE IF ~InWindow(flag, t) THEN FALSE
  ELSE IF TierBlocks(flag, principal) THEN FALSE
  ELSE IF flag.percentageRollout = 100 THEN TRUE
  ELSE IF flag.percentageRollout = 0 THEN FALSE
  ELSE Bucket(flag.key, principal.userId) < flag.percentageRollout

\* (variant: a full rollout is decided before the kill switch)
evaluateRolloutFirst(flag, override, principal, t) ==
  IF override # None THEN override[1]
  ELSE IF flag.percentageRollout = 100 THEN TRUE
  ELSE IF ~flag.enabled THEN FALSE
  ELSE IF ~InWindow(flag, t) THEN FALSE
  ELSE IF TierBlocks(flag, principal) THEN FALSE
  ELSE IF flag.percentageRollout = 0 THEN FALSE
  ELSE Bucket(flag.key, principal.userId) < flag.percentageRollout

\* (variant: an eligible principal gets the flag whatever the rollout says)
evaluateIgnoresRollout(flag, override, principal, t) ==
  IF override # None THEN override[1]
  ELSE IF ~flag.enabled THEN FALSE
  ELSE IF ~InWindow(flag, t) THEN FALSE
  ELSE IF TierBlocks(flag, principal) THEN FALSE
  ELSE TRUE

\* evaluate(flag, override, principal, now): the first matching rule decides
evaluate(flag, override, principal, t) ==
  IF override # None THEN override[1]
  ELSE IF ~flag.enabled THEN FALSE
  ELSE IF ~InWindow(flag, t) THEN FALSE
  ELSE IF TierBlocks(flag, principal) THEN FALSE
  ELSE IF flag.percentageRollout = 100 THEN TRUE
  ELSE IF flag.percentageRollout = 0 THEN FALSE
  ELSE Bucket(flag.key, principal.userId) < flag.percentageRollout

\* the definitions, principals, overrides and instants evaluate is applied to
Rollouts == {0, 50, 100}
OptionalDays == {None} \cup {Some(d) : d \in 1..MaxDay}

Definitions ==
  {f \in [key : {"beta"}, enabled : BOOLEAN, minSubscriptionTier : Tiers \cup {NoTier},
          percentageRollout : Rollouts, startDate : OptionalDays, endDate : OptionalDays] :
     IF f.startDate = None \/ f.endDate = None THEN TRUE
     ELSE f.startDate[1] <= f.endDate[1]}

Principals == [userId : Users, subscriptionTier : Tiers]
Overrides == [Users -> {Absent, "on", "off"}]
Instants == 0..(MaxDay + 1)

IdleEngine ==
  [flag |-> [key |-> "beta", enabled |-> TRUE, minSubscriptionTier |-> NoTier,
             percentageRollout |-> 100, startDate |-> None, endDate |-> None],
   overrides |-> [u \in Users |-> Absent],
   principal |-> [userId |-> "U1", subscriptionTier |-> "free"],
   now |-> 0,
   verdict |-> None]

(* --------------------------------------- SubscriptionTierManager (code) *)
\* (variant: the level table has basic and pro the wrong way round)
getTierLevelSwapped(tier) ==
  CASE tier = "free" -> 0
    [] tier = "basic" -> 2
    [] tier = "pro" -> 1
    [] tier = "enterprise" -> 3
    [] OTHER -> 0

\* lines 134-143: levels[tier] || 0
getTierLevel(tier) ==
  CASE tier = "free" -> 0
    [] tier = "basic" -> 1
    [] tier = "pro" -> 2
    [] tier = "enterprise" -> 3
    [] OTHER -> 0

\* lines 116-120: minTier ? getTierLevel(minTier) : 0, and
\* tierFeatures[flag.key] = tierLevel >= minTierLevel
TierHasFeature(tier, minTier) ==
  getTierLevel(tier) >= (IF minTier = NoTier THEN 0 ELSE getTierLevel(minTier))

\* lines 41-54: the component before a tier is chosen; featureFlags is the
\* list the mount effect loaded (56-80)
IdleTierView(featureFlags) ==
  [featureFlags |-> featureFlags, selectedTier |-> NoTier, isEditing |-> FALSE,
   features |-> [k \in {} |-> FALSE]]

ListedFlag(key, minTier) == [key |-> key, min_subscription_tier |-> minTier]

(* --------------------------------------------------- FeatureGate.jsx (code) *)
\* the runs of checkFeatureFlag that can be under way at once, and how many
\* changes of props, session and store a run of the gate sees
Checks == {1, 2}
MaxGateEvents == 4

\* lines 25-28: props and state of the component after its first render
IdleGate(showLoading) ==
  [flagKey |-> "beta", showLoading |-> showLoading, isEnabled |-> None, isLoading |-> TRUE]

IdleCheck ==
  [pc |-> "idle", flagKey |-> "beta", isAuthenticated |-> FALSE, token |-> NoToken,
   response |-> NoResponse, outcome |-> "none"]

\* the effect (30-80) is due: it has captured flagKey and isAuthenticated
DueCheck(flagKey, isAuthenticated) ==
  [IdleCheck EXCEPT !.pc = "start", !.flagKey = flagKey, !.isAuthenticated = isAuthenticated]

\* a finished run; outcome is history: "unauthenticated", "cache", "enabled",
\* "disabled" (the store's verdict) or "failed"
CheckDone(ck, outcome) ==
  [IdleCheck EXCEPT !.pc = "done", !.flagKey = ck.flagKey, !.outcome = outcome]

\* (variant: children are drawn unless the flag is known to be disabled)
RenderUnlessDisabled(g) ==
  IF g.isLoading /\ g.showLoading THEN "loading"
  ELSE IF g.isEnabled # Some(FALSE) THEN "children"
  ELSE "fallback"

\* lines 82-93: what the component draws
Render(g) ==
  IF g.isLoading /\ g.showLoading THEN "loading"
  ELSE IF g.isEnabled = Some(TRUE) THEN "children"
  ELSE "fallback"

\* setIsEnabled(v); setIsLoading(false)
GateSettled(g, v) == [g EXCEPT !.isEnabled = Some(v), !.isLoading = FALSE]

\* the status request of the gate: without a token the store refuses it
GateStatus(flags, overrides, flagKey, token) ==
  IF token = NoToken THEN NoResponse
  ELSE StoreStatus(flags, overrides, flagKey, token)

\* the lowest run slot that is free for the next effect
FreeCheck(cs) ==
  CHOOSE c \in Checks :
    /\ cs[c].pc \in {"idle", "done"}
    /\ \A d \in Checks : cs[d].pc \in {"idle", "done"} => c <= d

HasFreeCheck(cs) == \E c \in Checks : cs[c].pc \in {"idle", "done"}

\* the effect of the last render has run: React runs the effect of a commit
\* before it renders the component again
EffectsFlushed(cs) == \A c \in Checks : cs[c].pc # "start"

\* a render with changed deps makes the effect due
WithDueCheck(cs, flagKey, isAuthenticated) ==
  [cs EXCEPT ![FreeCheck(cs)] = DueCheck(flagKey, isAuthenticated)]

(* ------------------------------- env.config.ts, FeatureGate.tsx (code) *)
StaticFeatures == {"analytics", "notifications", "onboarding"}

\* what process.env can hold for a flag variable: nothing, or a text
Unset == "undefined"
EnvTexts == {Unset, "true", "false", "yes"}

\* lines 13-15 of env.config.ts: z.enum(['true','false']).transform(val =>
\* val === 'true').default('false'); an unset variable is replaced by the
\* default text, which is then parsed like any other text
ParseFlag(text) ==
  LET input == IF text = Unset THEN "false" ELSE text
  IN  IF input \in {"true", "false"}
      THEN [success |-> TRUE, value |-> (input = "true")]
      ELSE [success |-> FALSE, value |-> FALSE]

NotLoaded == [state |-> "not loaded"]
LoadFailed == [state |-> "throws"]

\* lines 31-49: the parsed environment, or the module fails to load
validateEnv(processEnv) ==
  IF /\ processEnv.required
     /\ \A f \in StaticFeatures : ParseFlag(processEnv[f]).success
  THEN [state |-> "loaded",
        analytics |-> ParseFlag(processEnv.analytics).value,
        notifications |-> ParseFlag(processEnv.notifications).value,
        onboarding |-> ParseFlag(processEnv.onboarding).value]
  ELSE LoadFailed

\* (variant: the analytics and the notifications bit change places)
envIsFeatureEnabledSwapped(env, feature) ==
  CASE feature = "analytics" -> env.notifications
    [] feature = "notifications" -> env.analytics
    [] feature = "onboarding" -> env.onboarding

\* lines 56-71: isFeatureEnabled(feature) of env.config.ts
envIsFeatureEnabled(env, feature) ==
  CASE feature = "analytics" -> env.analytics
    [] feature = "notifications" -> env.notifications
    [] feature = "onboarding" -> env.onboarding
    [] OTHER -> FALSE

\* the fallback prop: not given, or a React node; null, false, '' and 0 are nodes
\* that JavaScript takes for false
NoFallback == "undefined"
Fallbacks == {NoFallback, "null", "false", "''", "0", "<Upgrade/>"}
Truthy(node) == node \notin {NoFallback, "null", "false", "''", "0"}

\* FeatureGate.tsx lines 12-50, with FeatureContext.tsx lines 16-18
StaticRender(env, feature, fallback) ==
  IF envIsFeatureEnabled(env, feature) THEN "children"
  ELSE IF Truthy(fallback) THEN "fallback"
  ELSE "Feature Unavailable"

ProcessEnvs ==
  [analytics : EnvTexts, notifications : EnvTexts, onboarding : EnvTexts,
   required : BOOLEAN]

NotDrawn == [feature |-> "none", fallback |-> NoFallback, drawn |-> "nothing"]

(* ------------------------------------------- AuthService, part_004 (code) *)
\* how many calls of login, logout and getCurrentUser a run makes
MaxAuthCalls == 4

IdleLogin == [pc |-> "idle", outcome |-> "none"]
IdleMe == [pc |-> "idle", token |-> NoToken, result |-> NoUser]

\* lines 455-457: the fields of a new AuthService; localStorage may still
\* hold the auth_token an earlier page load saved. calls and loggedOut are
\* history: loggedOut holds from a logout until the next successful login
NewAuthService(stored) ==
  [token |-> NoToken, user |-> NoUser, stored |-> stored,
   login |-> IdleLogin, me |-> IdleMe, calls |-> 0, loggedOut |-> FALSE]

\* lines 517-519: return !!this.token || !!localStorage.getItem('auth_token')
isAuthenticated(a) == a.token # NoToken \/ a.stored # NoToken

\* lines 521-523: return this.token || localStorage.getItem('auth_token')
getToken(a) == IF a.token # NoToken THEN a.token ELSE a.stored

\* lines 473-479: the answer of POST /auth/login is taken over
LoginSucceeded(a, user) ==
  [a EXCEPT !.token = user, !.user = user, !.stored = user,
            !.login = [pc |-> "done", outcome |-> "resolved"], !.loggedOut = FALSE]

\* lines 480-483: catch: log, throw 'Authentication failed...'
LoginFailed(a) == [a EXCEPT !.login = [pc |-> "done", outcome |-> "rejected"]]

\* lines 486-490: logout()
LoggedOut(a) ==
  [a EXCEPT !.token = NoToken, !.user = NoUser, !.stored = NoToken, !.loggedOut = TRUE]

\* lines 493-501: getCurrentUser() up to its await
MeStarted(a) ==
  IF a.user # NoUser
  THEN [a EXCEPT !.me = [pc |-> "done", token |-> NoToken, result |-> a.user]]
  ELSE IF a.stored = NoToken
       THEN [a EXCEPT !.me = [pc |-> "done", token |-> NoToken, result |-> NoUser]]
       ELSE [a EXCEPT !.me = [pc |-> "get", token |-> a.stored, result |-> NoUser]]

\* lines 503-515: GET /auth/me has settled: the user is kept and returned,
\* or the catch returns null
MeSettled(a, ok) ==
  IF ok
  THEN [a EXCEPT !.user = a.me.token,
                 !.me = [pc |-> "done", token |-> NoToken, result |-> a.me.token]]
  ELSE [a EXCEPT !.me = [pc |-> "done", token |-> NoToken, result |-> NoUser]]

(* --------------------------------------- NotificationContext.tsx (code) *)
\* how many notifications a run keeps in the list
MaxNotes == 3

NotificationTypes == {"info", "error"}

\* lines 101-108: the new notification; its id is the text of Date.now()
NewNotification(type, t) == [id |-> ToString(t), type |-> type, read |-> FALSE]

\* line 111: prev => [newNotification, ...prev]
Shown(prev, type, t) == <<NewNotification(type, t)>> \o prev

\* lines 132-138: every notification with that id becomes read
MarkedAsRead(prev, id) ==
  [i \in DOMAIN prev |-> IF prev[i].id = id THEN [prev[i] EXCEPT !.read = TRUE] ELSE prev[i]]

\* lines 143-145
AllMarkedAsRead(prev) == [i \in DOMAIN prev |-> [prev[i] EXCEPT !.read = TRUE]]

\* line 73: notifications.filter(notification => !notification.read).length
unreadCount(notifications) ==
  Cardinality({i \in DOMAIN notifications : ~notifications[i].read})

\* the ids a notification can get: the texts of the instants of the clock
NoteIds == {ToString(k * Tick) : k \in 0..MaxTicks}

\* lines 94-96: the effect saves the list whenever it has changed
NotesWith(notifications) == [notifications |-> notifications, saved |-> notifications]

(* ------------------------------------------------------------------ Init *)
\* the service module after it is loaded
ServiceInit ==
  /\ now = 0
  /\ authToken = NoToken
  /\ featureFlagCache = EmptyCache
  /\ flagStore = [k \in Flags |-> IF k = "beta" THEN "off" ELSE Absent]
  /\ overrideStore = [p \in Flags \X OverrideUsers |-> Absent]
  /\ reads = [r \in Reads |-> IdleRead]
  /\ mut = IdleMutation
  /\ made = 0
  /\ list = IdleList

\* a component that is not on the page (an engine that is not asked)
Unmounted == [mounted |-> FALSE]

\* the admin panel after its first render
ManagerInit ==
  /\ manager = IdleManager
  /\ handlers = IdleHandlers
  /\ shown = {}
  /\ clicks = 0

ManagerIdle ==
  /\ manager = Unmounted
  /\ handlers = Unmounted
  /\ shown = {}
  /\ clicks = 0

EngineIdle == engine = Unmounted

TierViewIdle == tierView = Unmounted

GateIdle ==
  /\ gate = Unmounted
  /\ gateCache = EmptyCache
  /\ checks = Unmounted
  /\ gateEvents = 0

AppIdle ==
  /\ staticGate = Unmounted
  /\ auth = Unmounted
  /\ notes = Unmounted

\* the service alone: no panel and no gate is on the page
Init ==
  /\ ServiceInit
  /\ ManagerIdle
  /\ EngineIdle
  /\ TierViewIdle
  /\ GateIdle
  /\ AppIdle

(* ----------------------------------------------------------- environment *)
\* Date.now() moves on
Tock ==
  /\ now < MaxTicks * Tick
  /\ now' = now + Tick
  /\ UNCHANGED <<authToken, featureFlagCache, flagStore, overrideStore, reads, mut, made>>
  /\ UNCHANGED viewVars

\* a user signs in: getAuthToken() yields that user's token from now on
Login(u) ==
  /\ authToken = NoToken
  /\ authToken' = u
  /\ UNCHANGED <<now, featureFlagCache, flagStore, overrideStore, reads, mut, made>>
  /\ UNCHANGED viewVars

Logout ==
  /\ authToken # NoToken
  /\ authToken' = NoToken
  /\ UNCHANGED <<now, featureFlagCache, flagStore, overrideStore, reads, mut, made>>
  /\ UNCHANGED viewVars

(* ------------------------------------------------------ isFeatureEnabled *)
\* lines 16-24: the synchronous start of a call, up to the first await
isFeatureEnabled(r, flagKey) ==
  /\ reads[r].pc \in {"idle", "done"}
  /\ made < MaxCalls
  /\ made' = made + 1
  /\ reads' = [reads EXCEPT ![r] =
       IF CacheFresh(featureFlagCache, CacheKey(flagKey), now)
       THEN Returned(flagKey, featureFlagCache[CacheKey(flagKey)].enabled, "cache")
       ELSE [IdleRead EXCEPT !.pc = "token", !.flagKey = flagKey]]
  /\ UNCHANGED <<now, authToken, featureFlagCache, flagStore, overrideStore, mut>>
  /\ UNCHANGED viewVars

\* lines 27-37: getAuthToken() settles; the status request leaves
ReadGetsToken(r, tokenThrows) ==
  /\ reads[r].pc = "token"
  /\ reads' = [reads EXCEPT ![r] = AfterToken(reads[r], authToken, tokenThrows)]
  /\ UNCHANGED <<now, authToken, featureFlagCache, flagStore, overrideStore, mut, made>>
  /\ UNCHANGED viewVars

\* the store answers GET /api/feature-flags/status/{flagKey}
StoreAnswersStatus(r) ==
  /\ reads[r].pc = "fetch"
  /\ reads' = [reads EXCEPT ![r] =
       [reads[r] EXCEPT !.pc = "response",
          !.response = StoreStatus(flagStore, overrideStore, reads[r].flagKey, reads[r].token)]]
  /\ UNCHANGED <<now, authToken, featureFlagCache, flagStore, overrideStore, mut, made>>
  /\ UNCHANGED viewVars

\* fetch rejects (network failure)
StatusFetchThrows(r) ==
  /\ reads[r].pc = "fetch"
  /\ reads' = [reads EXCEPT ![r] =
       [reads[r] EXCEPT !.pc = "response", !.response = [NoResponse EXCEPT !.threw = TRUE]]]
  /\ UNCHANGED <<now, authToken, featureFlagCache, flagStore, overrideStore, mut, made>>
  /\ UNCHANGED viewVars

\* lines 39-55: the call resumes with the settled fetch
ReadResumes(r, bodyThrows) ==
  /\ reads[r].pc = "response"
  /\ bodyThrows => (reads[r].response.ok /\ ~reads[r].response.threw)
  /\ featureFlagCache' =
       IF WritesCache(reads[r], bodyThrows)
       THEN CachePut(featureFlagCache, CacheKey(reads[r].flagKey),
                     reads[r].response.enabled, now, reads[r].token)
       ELSE featureFlagCache
  /\ reads' = [reads EXCEPT ![r] = AfterResponse(reads[r], bodyThrows)]
  /\ UNCHANGED <<now, authToken, flagStore, overrideStore, mut, made>>
  /\ UNCHANGED viewVars

(* ------------------------------------------------------- admin mutations *)
\* create/update/delete flag, create/delete override: the call starts
MutationCall(op, flagKey, userId, enabled) ==
  /\ mut.pc \in {"idle", "done"}
  /\ made < MaxCalls
  /\ made' = made + 1
  /\ mut' = [IdleMutation EXCEPT !.pc = "token", !.op = op, !.flagKey = flagKey,
                                 !.userId = userId, !.enabled = enabled]
  /\ UNCHANGED <<now, authToken, featureFlagCache, flagStore, overrideStore, reads>>
  /\ UNCHANGED viewVars

MutationGetsToken(tokenThrows) ==
  /\ mut.pc = "token"
  /\ mut' = MutationAfterToken(mut, authToken, tokenThrows)
  /\ UNCHANGED <<now, authToken, featureFlagCache, flagStore, overrideStore, reads, made>>
  /\ UNCHANGED viewVars

\* the store handles the write request: persists it and answers OK, or rejects it
StoreHandlesMutation ==
  /\ mut.pc = "fetch"
  /\ IF StoreAccepts(flagStore, mut)
     THEN /\ flagStore' = FlagsAfter(flagStore, mut)
          /\ overrideStore' = OverridesAfter(overrideStore, mut)
          /\ mut' = [mut EXCEPT !.pc = "response", !.answer = "ok"]
     ELSE /\ mut' = [mut EXCEPT !.pc = "response", !.answer = StoreAnswer(flagStore, mut)]
          /\ UNCHANGED <<flagStore, overrideStore>>
  /\ UNCHANGED <<now, authToken, featureFlagCache, reads, made>>
  /\ UNCHANGED viewVars

\* fetch rejects before the request reaches the store
MutationFetchThrows ==
  /\ mut.pc = "fetch"
  /\ mut' = [mut EXCEPT !.pc = "response", !.answer = "threw"]
  /\ UNCHANGED <<now, authToken, featureFlagCache, flagStore, overrideStore, reads, made>>
  /\ UNCHANGED viewVars

\* the call resumes with the settled fetch: clears the cache and resolves, or throws
MutationResumes(bodyThrows) ==
  /\ mut.pc = "response"
  /\ bodyThrows => (ParsesBody(mut.op) /\ mut.answer = "ok")
  /\ featureFlagCache' = CacheAfterMutation(featureFlagCache, mut, bodyThrows)
  /\ mut' = MutationAfterResponse(mut, bodyThrows, featureFlagCache)
  /\ UNCHANGED <<now, authToken, flagStore, overrideStore, reads, made>>
  /\ UNCHANGED viewVars

(* ------------------------------------------------------------------ Next *)
Next ==
  \/ Tock
  \/ \E u \in Users : Login(u)
  \/ Logout
  \/ \E r \in Reads, k \in Flags : isFeatureEnabled(r, k)
  \/ \E r \in Reads, t \in BOOLEAN : ReadGetsToken(r, t)
  \/ \E r \in Reads : StoreAnswersStatus(r)
  \/ \E r \in Reads : StatusFetchThrows(r)
  \/ \E r \in Reads, b \in BOOLEAN : ReadResumes(r, b)
  \/ \E op \in FlagOps, k \in Flags, e \in BOOLEAN :
       MutationCall(op, k, NoUser, IF op = "deleteFeatureFlag" THEN FALSE ELSE e)
  \/ \E op \in OverrideOps, k \in Flags, u \in OverrideUsers, e \in BOOLEAN :
       MutationCall(op, k, u, IF op = "deleteFeatureOverride" THEN FALSE ELSE e)
  \/ \E t \in BOOLEAN : MutationGetsToken(t)
  \/ StoreHandlesMutation
  \/ MutationFetchThrows
  \/ \E b \in BOOLEAN : MutationResumes(b)

Spec == Init /\ [][Next]_vars

(* ---------------------------------------------------- getAllFeatureFlags *)
\* lines 72-74: the call starts and awaits getAuthToken()
getAllFeatureFlags ==
  /\ list.pc \in {"idle", "done"}
  /\ made < MaxCalls
  /\ made' = made + 1
  /\ list' = [IdleList EXCEPT !.pc = "token"]
  /\ UNCHANGED <<svcVars, mgrVars, evalVars, tierVars, gateVars, appVars>>

ListGetsToken(tokenThrows) ==
  /\ list.pc = "token"
  /\ list' = ListAfterToken(list, authToken, tokenThrows)
  /\ UNCHANGED nonList

\* the store answers GET /api/feature-flags
StoreAnswersList ==
  /\ list.pc = "fetch"
  /\ list' = [list EXCEPT !.pc = "response", !.response = StoreList(flagStore, list.token)]
  /\ UNCHANGED nonList

ListFetchThrows ==
  /\ list.pc = "fetch"
  /\ list' = [list EXCEPT !.pc = "response", !.response = [NoList EXCEPT !.threw = TRUE]]
  /\ UNCHANGED nonList

\* lines 86-95: the call resumes with the settled fetch
ListResumes(bodyThrows) ==
  /\ list.pc = "response"
  /\ bodyThrows => (list.response.ok /\ ~list.response.threw)
  /\ list' = ListAfterResponse(list, bodyThrows)
  /\ UNCHANGED nonList

\* the service with its list call, at one instant of Date.now()
ListNext ==
  \/ \E u \in Users : Login(u)
  \/ Logout
  \/ \E r \in Reads, k \in Flags : isFeatureEnabled(r, k)
  \/ \E r \in Reads, t \in BOOLEAN : ReadGetsToken(r, t)
  \/ \E r \in Reads : StoreAnswersStatus(r)
  \/ \E r \in Reads : StatusFetchThrows(r)
  \/ \E r \in Reads, b \in BOOLEAN : ReadResumes(r, b)
  \/ \E op \in FlagOps, k \in Flags, e \in BOOLEAN :
       MutationCall(op, k, NoUser, IF op = "deleteFeatureFlag" THEN FALSE ELSE e)
  \/ \E t \in BOOLEAN : MutationGetsToken(t)
  \/ StoreHandlesMutation
  \/ MutationFetchThrows
  \/ \E b \in BOOLEAN : MutationResumes(b)
  \/ getAllFeatureFlags
  \/ \E t \in BOOLEAN : ListGetsToken(t)
  \/ StoreAnswersList
  \/ ListFetchThrows
  \/ \E b \in BOOLEAN : ListResumes(b)

ListSpec == Init /\ [][ListNext]_vars

(* ---------------------------------------------------- FeatureFlagManager *)
\* a user event of the panel
Click ==
  /\ clicks < MaxClicks
  /\ clicks' = clicks + 1

\* lines 46-62: the mount effect's getAllFeatureFlags settles
MountFetchSettles(ok, keys) ==
  /\ handlers.mount = "listing"
  /\ handlers' = [handlers EXCEPT !.mount = "done"]
  /\ manager' =
       IF ok
       THEN [manager EXCEPT !.flags = keys, !.error = NoError, !.loading = FALSE]
       ELSE [manager EXCEPT !.error = LoadFailedText, !.loading = FALSE]
  /\ UNCHANGED <<featureFlagCache, shown, clicks, nonMgr>>

\* lines 65-75
handleInputChange(name, value) ==
  /\ FormShown(manager)
  /\ Click
  /\ manager' =
       IF name = "percentage_rollout"
       THEN [manager EXCEPT !.formData.percentage_rollout = parseInt(value)]
       ELSE IF name = "start_date"
            THEN [manager EXCEPT !.formData.start_date = value]
            ELSE [manager EXCEPT !.formData.end_date = value]
  /\ UNCHANGED <<featureFlagCache, handlers, shown, nonMgr>>

\* lines 89-105: Edit on a row of the list
handleSelectFlag(key, form) ==
  /\ UiShown(manager)
  /\ key \in manager.flags
  /\ Click
  /\ manager' = [manager EXCEPT !.selectedFlag = key, !.formData = form,
                                !.isEditing = TRUE, !.isCreating = FALSE,
                                !.isManagingOverrides = FALSE]
  /\ UNCHANGED <<featureFlagCache, handlers, shown, nonMgr>>

\* lines 108-124: Create New Flag
handleCreateNew ==
  /\ UiShown(manager)
  /\ Click
  /\ manager' = [manager EXCEPT !.selectedFlag = NoFlag, !.formData = InitialForm,
                                !.isCreating = TRUE, !.isEditing = FALSE,
                                !.isManagingOverrides = FALSE]
  /\ UNCHANGED <<featureFlagCache, handlers, shown, nonMgr>>

\* lines 127-136: Overrides on a row of the list
handleManageOverrides(key) ==
  /\ UiShown(manager)
  /\ key \in manager.flags
  /\ Click
  /\ manager' = [manager EXCEPT !.selectedFlag = key,
                                !.isManagingOverrides = TRUE, !.isEditing = FALSE,
                                !.isCreating = FALSE]
  /\ UNCHANGED <<featureFlagCache, handlers, shown, nonMgr>>

\* lines 403-410, 527-534, 575-582: the Cancel button of a form
Cancel(mode) ==
  /\ UiShown(manager)
  /\ ~manager.loading
  /\ Click
  /\ CASE mode = "isCreating" ->
            manager.isCreating /\ manager' = [manager EXCEPT !.isCreating = FALSE]
       [] mode = "isEditing" ->
            /\ manager.isEditing /\ manager.selectedFlag # NoFlag
            /\ manager' = [manager EXCEPT !.isEditing = FALSE]
       [] OTHER ->
            /\ manager.isManagingOverrides /\ manager.selectedFlag # NoFlag
            /\ manager' = [manager EXCEPT !.isManagingOverrides = FALSE]
  /\ UNCHANGED <<featureFlagCache, handlers, shown, nonMgr>>

\* lines 139-158: the form is submitted (the button is disabled while
\* loading, the browser checks the rollout field): setLoading(true), the data
\* is prepared and createFeatureFlag / updateFeatureFlag is called with it
handleSubmit ==
  /\ FormShown(manager)
  /\ ~manager.loading
  /\ PercentFieldValid(manager.formData.percentage_rollout)
  /\ handlers.submit.pc = "idle"
  /\ Click
  /\ manager' = [manager EXCEPT !.loading = TRUE]
  /\ handlers' = [handlers EXCEPT !.submit =
       [pc |-> "writing", isCreating |-> manager.isCreating,
        data |-> PreparedData(manager.formData)]]
  /\ UNCHANGED <<featureFlagCache, shown, nonMgr>>

\* the service call of handleSubmit settles: it resolved (and cleared the
\* service's cache) and getAllFeatureFlags is called (161), or it threw (169-174)
SubmitWriteSettles(answer) ==
  /\ handlers.submit.pc = "writing"
  /\ answer \in WriteAnswers(IF handlers.submit.isCreating THEN "create" ELSE "update",
                             handlers.submit.data)
  /\ IF answer = "ok"
     THEN /\ featureFlagCache' = clearFeatureFlagCache(featureFlagCache)
          /\ handlers' = [handlers EXCEPT !.submit.pc = "listing", !.submit.data = NoData]
          /\ UNCHANGED <<manager, shown>>
     ELSE /\ manager' = SubmitCaught(manager, handlers.submit.isCreating,
                 ServiceError(IF handlers.submit.isCreating THEN "creating" ELSE "updating",
                              answer))
          /\ shown' = IF answer \in ErrorKinds
                      THEN shown \cup {<<answer, manager'.error>>} ELSE shown
          /\ handlers' = [handlers EXCEPT !.submit = IdleSubmit]
          /\ UNCHANGED featureFlagCache
  /\ UNCHANGED <<clicks, nonMgr>>

\* lines 161-174: the refresh after the write settles
SubmitListSettles(ok, keys) ==
  /\ handlers.submit.pc = "listing"
  /\ manager' =
       IF ok
       THEN [manager EXCEPT !.flags = keys, !.isCreating = FALSE, !.isEditing = FALSE,
                            !.selectedFlag = NoFlag, !.error = NoError,
                            !.loading = FALSE]
       ELSE SubmitCaught(manager, handlers.submit.isCreating,
                         ServiceError("fetching", "NetworkError"))
  /\ handlers' = [handlers EXCEPT !.submit = IdleSubmit]
  /\ UNCHANGED <<featureFlagCache, shown, clicks, nonMgr>>

\* lines 206-215: Delete on a row, confirmed: setLoading(true) and
\* deleteFeatureFlag(flag.key) is called
handleDeleteFlag(key) ==
  /\ UiShown(manager)
  /\ key \in manager.flags
  /\ handlers.del.pc = "idle"
  /\ Click
  /\ manager' = [manager EXCEPT !.loading = TRUE]
  /\ handlers' = [handlers EXCEPT !.del =
       [pc |-> "writing", key |-> key, selectedFlag |-> manager.selectedFlag]]
  /\ UNCHANGED <<featureFlagCache, shown, nonMgr>>

DeleteWriteSettles(answer) ==
  /\ handlers.del.pc = "writing"
  /\ answer \in WriteAnswers("delete", NoData)
  /\ IF answer = "ok"
     THEN /\ featureFlagCache' = clearFeatureFlagCache(featureFlagCache)
          /\ handlers' = [handlers EXCEPT !.del.pc = "listing"]
          /\ UNCHANGED <<manager, shown>>
     ELSE /\ manager' = DeleteCaught(manager, ServiceError("deleting", answer))
          /\ shown' = IF answer \in ErrorKinds
                      THEN shown \cup {<<answer, manager'.error>>} ELSE shown
          /\ handlers' = [handlers EXCEPT !.del = IdleDelete]
          /\ UNCHANGED featureFlagCache
  /\ UNCHANGED <<clicks, nonMgr>>

\* lines 217-235: the refresh after the delete settles; the form is reset
\* when the flag selected at the click was the deleted one
DeleteListSettles(ok, keys) ==
  /\ handlers.del.pc = "listing"
  /\ manager' =
       IF ok
       THEN IF handlers.del.selectedFlag # NoFlag
               /\ handlers.del.selectedFlag = handlers.del.key
            THEN [manager EXCEPT !.flags = keys, !.isCreating = FALSE,
                                 !.isEditing = FALSE, !.isManagingOverrides = FALSE,
                                 !.selectedFlag = NoFlag, !.error = NoError,
                                 !.loading = FALSE]
            ELSE [manager EXCEPT !.flags = keys, !.error = NoError, !.loading = FALSE]
       ELSE DeleteCaught(manager, ServiceError("fetching", "NetworkError"))
  /\ handlers' = [handlers EXCEPT !.del = IdleDelete]
  /\ UNCHANGED <<featureFlagCache, shown, clicks, nonMgr>>

ManagerNext ==
  \/ \E ok \in BOOLEAN, keys \in SUBSET Flags : MountFetchSettles(ok, keys)
  \/ \E value \in PercentTexts : handleInputChange("percentage_rollout", value)
  \/ \E name \in {"start_date", "end_date"}, value \in DateTexts :
       handleInputChange(name, value)
  \/ \E key \in Flags, form \in ListedForms : handleSelectFlag(key, form)
  \/ handleCreateNew
  \/ \E key \in Flags : handleManageOverrides(key)
  \/ \E mode \in {"isCreating", "isEditing", "isManagingOverrides"} : Cancel(mode)
  \/ handleSubmit
  \/ \E answer \in ErrorKinds \cup {"ok", "Not authenticated", "NetworkError"} :
       SubmitWriteSettles(answer)
  \/ \E ok \in BOOLEAN, keys \in SUBSET Flags : SubmitListSettles(ok, keys)
  \/ \E key \in Flags : handleDeleteFlag(key)
  \/ \E answer \in ErrorKinds \cup {"ok", "Not authenticated", "NetworkError"} :
       DeleteWriteSettles(answer)
  \/ \E ok \in BOOLEAN, keys \in SUBSET Flags : DeleteListSettles(ok, keys)

ManagerMounted ==
  /\ ServiceInit
  /\ AppIdle
  /\ ManagerInit
  /\ EngineIdle
  /\ TierViewIdle
  /\ GateIdle

ManagerSpec == ManagerMounted /\ [][ManagerNext]_vars

(* ------------------------------------------------------ ResolutionEngine *)
\* what evaluate yields for the inputs held in e
Verdict(e) ==
  evaluate(e.flag, OverrideFor(e.overrides, e.principal.userId), e.principal, e.now)

\* evaluate is applied to the inputs
Evaluate ==
  /\ engine.verdict = None
  /\ engine' = [engine EXCEPT !.verdict = Some(Verdict(engine))]
  /\ UNCHANGED nonEngine

\* the override of one user is set or removed; the verdict is asked for anew
OverrideChanges(userId, value) ==
  /\ engine.overrides[userId] # value
  /\ engine' = [engine EXCEPT !.overrides[userId] = value, !.verdict = None]
  /\ UNCHANGED nonEngine

EvalInit ==
  /\ ServiceInit
  /\ AppIdle
  /\ ManagerIdle
  /\ TierViewIdle
  /\ GateIdle
  /\ engine \in [flag : Definitions, overrides : Overrides, principal : Principals,
                 now : Instants, verdict : {None}]

EvalNext ==
  \/ Evaluate
  \/ \E u \in Users, v \in {Absent, "on", "off"} : OverrideChanges(u, v)

EvalSpec == EvalInit /\ [][EvalNext]_vars

(* ----------------------------------------------- SubscriptionTierManager *)
\* lines 109-131: Manage Features on the row of a tier
handleSelectTier(tier) ==
  /\ tierView' =
       [tierView EXCEPT
          !.selectedTier = tier,
          !.features =
             [k \in {tierView.featureFlags[i].key : i \in DOMAIN tierView.featureFlags} |->
                LET last == CHOOSE i \in DOMAIN tierView.featureFlags :
                              /\ tierView.featureFlags[i].key = k
                              /\ \A j \in DOMAIN tierView.featureFlags :
                                   tierView.featureFlags[j].key = k => j <= i
                IN TierHasFeature(tier, tierView.featureFlags[last].min_subscription_tier)],
          !.isEditing = TRUE]
  /\ UNCHANGED nonTier

\* a flag with a minimum tier and a rollout of all or nothing, a principal of
\* each tier, and the tier view listing that flag and a second one
TierInit ==
  /\ ServiceInit
  /\ AppIdle
  /\ ManagerIdle
  /\ GateIdle
  /\ engine \in {[IdleEngine EXCEPT !.flag.minSubscriptionTier = m,
                                    !.flag.percentageRollout = r,
                                    !.principal.subscriptionTier = t] :
                   m \in Tiers \cup {NoTier}, r \in {0, 100}, t \in Tiers}
  /\ tierView \in {IdleTierView(<<ListedFlag("beta", engine.flag.minSubscriptionTier),
                                  ListedFlag("dark", m)>>) : m \in Tiers \cup {NoTier}}

TierNext ==
  \/ Evaluate
  \/ \E tier \in Tiers : handleSelectTier(tier)

TierSpec == TierInit /\ [][TierNext]_vars

(* ------------------------------------------------------------ FeatureGate *)
GateEvent ==
  /\ gateEvents < MaxGateEvents
  /\ gateEvents' = gateEvents + 1

\* lines 31-51: the effect runs checkFeatureFlag up to its first await
checkFeatureFlag(c) ==
  /\ checks[c].pc = "start"
  /\ IF ~checks[c].isAuthenticated
     THEN /\ gate' = GateSettled(gate, FALSE)
          /\ checks' = [checks EXCEPT ![c] = CheckDone(checks[c], "unauthenticated")]
     ELSE IF CacheFresh(gateCache, CacheKey(checks[c].flagKey), now)
          THEN /\ gate' = GateSettled(gate, gateCache[CacheKey(checks[c].flagKey)].enabled)
               /\ checks' = [checks EXCEPT ![c] = CheckDone(checks[c], "cache")]
          ELSE /\ checks' = [checks EXCEPT ![c].pc = "token"]
               /\ UNCHANGED gate
  /\ UNCHANGED <<gateCache, gateEvents, nonGate>>

\* lines 51-56: getToken() settles; the status request leaves
CheckGetsToken(c, tokenThrows) ==
  /\ checks[c].pc = "token"
  /\ IF tokenThrows
     THEN /\ gate' = GateSettled(gate, FALSE)
          /\ checks' = [checks EXCEPT ![c] = CheckDone(checks[c], "failed")]
     ELSE /\ checks' = [checks EXCEPT ![c].pc = "fetch", ![c].token = authToken]
          /\ UNCHANGED gate
  /\ UNCHANGED <<gateCache, gateEvents, nonGate>>

\* the store answers GET /api/feature-flags/status/{flagKey}
StoreAnswersCheck(c) ==
  /\ checks[c].pc = "fetch"
  /\ checks' = [checks EXCEPT ![c].pc = "response",
                  ![c].response = GateStatus(flagStore, overrideStore,
                                             checks[c].flagKey, checks[c].token)]
  /\ UNCHANGED <<gate, gateCache, gateEvents, nonGate>>

CheckFetchThrows(c) ==
  /\ checks[c].pc = "fetch"
  /\ checks' = [checks EXCEPT ![c].pc = "response",
                  ![c].response = [NoResponse EXCEPT !.threw = TRUE]]
  /\ UNCHANGED <<gate, gateCache, gateEvents, nonGate>>

\* lines 58-76: the run resumes with the settled fetch
CheckResumes(c, bodyThrows) ==
  /\ checks[c].pc = "response"
  /\ bodyThrows => ~checks[c].response.threw
  /\ IF ~checks[c].response.threw /\ checks[c].response.ok /\ ~bodyThrows
     THEN /\ gate' = GateSettled(gate, checks[c].response.enabled)
          /\ gateCache' = CachePut(gateCache, CacheKey(checks[c].flagKey),
                                   checks[c].response.enabled, now, checks[c].token)
          /\ checks' = [checks EXCEPT ![c] =
               CheckDone(checks[c], IF checks[c].response.enabled THEN "enabled"
                                    ELSE "disabled")]
     ELSE /\ gate' = GateSettled(gate, FALSE)
          /\ checks' = [checks EXCEPT ![c] = CheckDone(checks[c], "failed")]
          /\ UNCHANGED gateCache
  /\ UNCHANGED <<gateEvents, nonGate>>

\* the parent renders the gate with another flagKey: the effect is due again
FlagKeyChanges(flagKey) ==
  /\ flagKey # gate.flagKey
  /\ EffectsFlushed(checks)
  /\ HasFreeCheck(checks)
  /\ GateEvent
  /\ gate' = [gate EXCEPT !.flagKey = flagKey]
  /\ checks' = WithDueCheck(checks, flagKey, authToken # NoToken)
  /\ UNCHANGED <<gateCache, nonGate>>

\* useAuth: the user signs in or out; isAuthenticated changes and the effect
\* is due again
SessionChanges(token) ==
  /\ (token = NoToken) # (authToken = NoToken)
  /\ EffectsFlushed(checks)
  /\ HasFreeCheck(checks)
  /\ GateEvent
  /\ authToken' = token
  /\ checks' = WithDueCheck(checks, gate.flagKey, token # NoToken)
  /\ UNCHANGED <<gate, gateCache, now, featureFlagCache, flagStore, overrideStore,
                 reads, mut, made, listVars, mgrVars, evalVars, tierVars, appVars>>

\* an admin elsewhere creates, switches or deletes a definition
DefinitionChanges(flagKey, value) ==
  /\ flagStore[flagKey] # value
  /\ GateEvent
  /\ flagStore' = [flagStore EXCEPT ![flagKey] = value]
  /\ UNCHANGED <<gate, gateCache, checks, now, authToken, featureFlagCache, overrideStore,
                 reads, mut, made, listVars, mgrVars, evalVars, tierVars, appVars>>

\* the gate is mounted, with or without a loading indicator; its first
\* effect is due
GateInit ==
  /\ ServiceInit
  /\ AppIdle
  /\ ManagerIdle
  /\ EngineIdle
  /\ TierViewIdle
  /\ gate \in {IdleGate(s) : s \in BOOLEAN}
  /\ gateCache = EmptyCache
  /\ checks = [c \in Checks |-> IF c = 1 THEN DueCheck("beta", FALSE) ELSE IdleCheck]
  /\ gateEvents = 0

GateNext ==
  \/ Tock
  \/ \E c \in Checks : checkFeatureFlag(c)
  \/ \E c \in Checks, t \in BOOLEAN : CheckGetsToken(c, t)
  \/ \E c \in Checks : StoreAnswersCheck(c)
  \/ \E c \in Checks : CheckFetchThrows(c)
  \/ \E c \in Checks, b \in BOOLEAN : CheckResumes(c, b)
  \/ \E k \in Flags : FlagKeyChanges(k)
  \/ \E t \in {NoToken, "U1"} : SessionChanges(t)
  \/ \E k \in Flags, v \in {Absent, "on", "off"} : DefinitionChanges(k, v)

GateSpec == GateInit /\ [][GateNext]_vars

(* --------------------------------------------------- static feature gate *)
\* env.config.ts line 52: the module is loaded and validates process.env
LoadEnv ==
  /\ staticGate.env = NotLoaded
  /\ staticGate' = [staticGate EXCEPT !.env = validateEnv(staticGate.processEnv)]
  /\ UNCHANGED <<auth, notes, nonApp>>

\* a FeatureGate of FeatureGate.tsx is rendered inside the FeatureProvider
RenderStaticGate(feature, fallback) ==
  /\ staticGate.env.state = "loaded"
  /\ staticGate' = [staticGate EXCEPT !.gate =
       [feature |-> feature, fallback |-> fallback,
        drawn |-> StaticRender(staticGate.env, feature, fallback)]]
  /\ UNCHANGED <<auth, notes, nonApp>>

StaticInit ==
  /\ ServiceInit
  /\ ManagerIdle
  /\ EngineIdle
  /\ TierViewIdle
  /\ GateIdle
  /\ auth = Unmounted
  /\ notes = Unmounted
  /\ staticGate \in [processEnv : ProcessEnvs, env : {NotLoaded}, gate : {NotDrawn}]

StaticNext ==
  \/ LoadEnv
  \/ \E f \in StaticFeatures, fb \in Fallbacks : RenderStaticGate(f, fb)

StaticSpec == StaticInit /\ [][StaticNext]_vars

(* ------------------------------------- FeatureGate beside the admin calls *)
\* a mounted gate, the session, and the mutation functions of the service
GateAdminNext ==
  \/ \E c \in Checks : checkFeatureFlag(c)
  \/ \E c \in Checks, t \in BOOLEAN : CheckGetsToken(c, t)
  \/ \E c \in Checks : StoreAnswersCheck(c)
  \/ \E c \in Checks : CheckFetchThrows(c)
  \/ \E c \in Checks, b \in BOOLEAN : CheckResumes(c, b)
  \/ \E t \in {NoToken, "U1"} : SessionChanges(t)
  \/ \E op \in FlagOps, e \in BOOLEAN : MutationCall(op, "beta", NoUser, e)
  \/ \E t \in BOOLEAN : MutationGetsToken(t)
  \/ StoreHandlesMutation
  \/ MutationFetchThrows
  \/ \E b \in BOOLEAN : MutationResumes(b)

GateAdminSpec == GateInit /\ [][GateAdminNext]_vars

(* ------------------------------ the status checks of service and gate *)
\* isFeatureEnabled of the service and checkFeatureFlag of a mounted gate,
\* each with its own cache, while the clock and the session move
ChecksNext ==
  \/ Tock
  \/ \E r \in Reads, k \in Flags : isFeatureEnabled(r, k)
  \/ \E r \in Reads, t \in BOOLEAN : ReadGetsToken(r, t)
  \/ \E r \in Reads : StoreAnswersStatus(r)
  \/ \E r \in Reads : StatusFetchThrows(r)
  \/ \E r \in Reads, b \in BOOLEAN : ReadResumes(r, b)
  \/ \E c \in Checks : checkFeatureFlag(c)
  \/ \E c \in Checks, t \in BOOLEAN : CheckGetsToken(c, t)
  \/ \E c \in Checks : StoreAnswersCheck(c)
  \/ \E c \in Checks : CheckFetchThrows(c)
  \/ \E c \in Checks, b \in BOOLEAN : CheckResumes(c, b)
  \/ \E t \in {NoToken, "U1"} : SessionChanges(t)

ChecksSpec == GateInit /\ [][ChecksNext]_vars

(* ------------------------------------------------------------ AuthService *)
\* lines 459-472: login(credentials) posts the credentials and awaits
login ==
  /\ auth.login.pc \in {"idle", "done"}
  /\ auth.calls < MaxAuthCalls
  /\ auth' = [auth EXCEPT !.login = [pc |-> "post", outcome |-> "none"],
                          !.calls = auth.calls + 1]
  /\ UNCHANGED <<staticGate, notes, nonApp>>

\* the server accepts the credentials as those of a user, or the post fails
LoginSettles(ok, user) ==
  /\ auth.login.pc = "post"
  /\ auth' = IF ok THEN LoginSucceeded(auth, user) ELSE LoginFailed(auth)
  /\ UNCHANGED <<staticGate, notes, nonApp>>

\* logout() has no await: it completes in one step
logout ==
  /\ auth.calls < MaxAuthCalls
  /\ auth' = [LoggedOut(auth) EXCEPT !.calls = auth.calls + 1]
  /\ UNCHANGED <<staticGate, notes, nonApp>>

getCurrentUser ==
  /\ auth.me.pc \in {"idle", "done"}
  /\ auth.calls < MaxAuthCalls
  /\ auth' = [MeStarted(auth) EXCEPT !.calls = auth.calls + 1]
  /\ UNCHANGED <<staticGate, notes, nonApp>>

\* GET /auth/me answers with the user of the token sent, or fails
MeSettles(ok) ==
  /\ auth.me.pc = "get"
  /\ auth' = MeSettled(auth, ok)
  /\ UNCHANGED <<staticGate, notes, nonApp>>

AuthInit ==
  /\ ServiceInit
  /\ ManagerIdle
  /\ EngineIdle
  /\ TierViewIdle
  /\ GateIdle
  /\ staticGate = Unmounted
  /\ notes = Unmounted
  /\ auth \in {NewAuthService(s) : s \in {NoToken} \cup Users}

AuthNext ==
  \/ login
  \/ \E u \in Users : LoginSettles(TRUE, u)
  \/ LoginSettles(FALSE, NoUser)
  \/ logout
  \/ getCurrentUser
  \/ \E ok \in BOOLEAN : MeSettles(ok)

AuthSpec == AuthInit /\ [][AuthNext]_vars

(* ---------------------------------------------------- NotificationProvider *)
showNotification(type) ==
  /\ Len(notes.notifications) < MaxNotes
  /\ notes' = NotesWith(Shown(notes.notifications, type, now))
  /\ UNCHANGED <<staticGate, auth, nonApp>>

markAsRead(id) ==
  /\ notes' = NotesWith(MarkedAsRead(notes.notifications, id))
  /\ notes' # notes
  /\ UNCHANGED <<staticGate, auth, nonApp>>

markAllAsRead ==
  /\ notes' = NotesWith(AllMarkedAsRead(notes.notifications))
  /\ notes' # notes
  /\ UNCHANGED <<staticGate, auth, nonApp>>

clearNotifications ==
  /\ notes.notifications # <<>>
  /\ notes' = NotesWith(<<>>)
  /\ UNCHANGED <<staticGate, auth, nonApp>>

\* the provider is mounted and nothing was saved before
NotesInit ==
  /\ ServiceInit
  /\ ManagerIdle
  /\ EngineIdle
  /\ TierViewIdle
  /\ GateIdle
  /\ staticGate = Unmounted
  /\ auth = Unmounted
  /\ notes = NotesWith(<<>>)

NotesNext ==
  \/ Tock
  \/ \E type \in NotificationTypes : showNotification(type)
  \/ \E id \in NoteIds : markAsRead(id)
  \/ markAllAsRead
  \/ clearNotifications

NotesSpec == NotesInit /\ [][NotesNext]_vars

(* ================================================================ claims *)
\* the call isFeatureEnabled(flagKey) in slot r was answered from the cache
ServedFromCache(r, flagKey) ==
  /\ isFeatureEnabled(r, flagKey)
  /\ reads'[r].via = "cache"

\* the cache entry of flagKey was resolved for the user who is signed in now
OwnEntry(flagKey) ==
  /\ authToken \in Users
  /\ CacheKey(flagKey) \in DOMAIN featureFlagCache
  /\ featureFlagCache[CacheKey(flagKey)].owner = authToken

\* what a fresh status fetch for the caller would answer right now
\* (a non-OK answer makes isFeatureEnabled return false)
FreshVerdict(flagKey, user) ==
  LET a == StoreStatus(flagStore, overrideStore, flagKey, user)
  IN a.ok /\ a.enabled

\* the last admin mutation call has resolved (its write is persisted, its
\* cache clear is done) and no other mutation call has started since
Resolved(ops, flagKey) ==
  /\ mut.pc = "done"
  /\ mut.outcome = "resolved"
  /\ mut.op \in ops
  /\ mut.flagKey = flagKey

\* the mutation call settles in this step
MutationSettles == mut.pc = "response" /\ mut'.pc = "done"

\* C1: after updateFlag(key) has resolved, every later isFeatureEnabled(key)
\* answers from the new definition, never with a verdict of the old one, for
\* the user the verdict was cached for.
C1_InvalidationCorrectness ==
  [][\A r \in Reads, k \in Flags :
       (ServedFromCache(r, k) /\ OwnEntry(k) /\ Resolved({"updateFeatureFlag"}, k))
         => reads'[r].result = FreshVerdict(k, authToken)]_vars

\* C2: for one flag and user, a read that starts after a mutation has been
\* persisted and its call has resolved returns the post-mutation verdict, in
\* every interleaving with reads that were in flight.
C2_OrderingUnderConcurrency ==
  [][\A r \in Reads, k \in Flags :
       (ServedFromCache(r, k) /\ OwnEntry(k) /\ Resolved(Ops, k))
         => reads'[r].result = FreshVerdict(k, authToken)]_vars

\* C3: a read that finds an entry younger than the TTL returns its value
\* without a fetch and leaves the cache alone; a read that finds no entry
\* or one at least TTL old is a miss: it goes on to the token and the
\* fetch, and its result is then never taken from the cache.
C3_CacheTTL ==
  [][\A r \in Reads :
       /\ \A k \in Flags :
            isFeatureEnabled(r, k) =>
              IF /\ CacheKey(k) \in DOMAIN featureFlagCache
                 /\ now - featureFlagCache[CacheKey(k)].timestamp < CACHE_TTL
              THEN /\ reads'[r].pc = "done"
                   /\ reads'[r].via = "cache"
                   /\ reads'[r].result = featureFlagCache[CacheKey(k)].enabled
                   /\ featureFlagCache' = featureFlagCache
              ELSE /\ reads'[r].pc = "token"
                   /\ reads'[r].flagKey = k
       /\ (reads[r].pc \in {"token", "fetch", "response"} /\ reads'[r].pc = "done")
            => reads'[r].via \in {"server", "fail"}]_vars

\* C3 witness: a call was answered from the cache with the value of an entry
\* written earlier (0 < age < TTL).
C3_Witness ==
  \E r \in Reads :
    /\ reads[r].pc = "done"
    /\ reads[r].via = "cache"
    /\ CacheKey(reads[r].flagKey) \in DOMAIN featureFlagCache
    /\ featureFlagCache[CacheKey(reads[r].flagKey)].timestamp < now
    /\ now - featureFlagCache[CacheKey(reads[r].flagKey)].timestamp < CACHE_TTL
    /\ reads[r].result = featureFlagCache[CacheKey(reads[r].flagKey)].enabled

\* C4: an admin mutation removes cache entries only in the step in which its
\* call resumes with an OK answer of the store, after the write is persisted;
\* no other step of any call removes an entry.
C4_PersistBeforeInvalidate ==
  [][(\E c \in DOMAIN featureFlagCache : c \notin DOMAIN featureFlagCache')
       => /\ MutationSettles
          /\ mut.answer = "ok"
          /\ mut'.outcome = "resolved"]_vars

\* C4 witness: a mutation call has resolved and its clear removed entries.
C4_Witness ==
  /\ mut.pc = "done"
  /\ mut.outcome = "resolved"
  /\ mut.answer = "ok"
  /\ mut.cleared # {}

\* C5: after createOverride(k, U, v) has resolved, the next isFeatureEnabled(k)
\* on behalf of U returns v; after deleteOverride(k, U) has resolved, it
\* returns the verdict without the override.
C5_OverrideImmediate ==
  [][\A r \in Reads, k \in Flags :
       (ServedFromCache(r, k) /\ OwnEntry(k) /\ Resolved(OverrideOps, k)
          /\ mut.userId = authToken)
         => reads'[r].result =
              IF mut.op = "createFeatureOverride" THEN mut.enabled
              ELSE FreshVerdict(k, authToken)]_vars

\* an isFeatureEnabled step that hits one of the failures: no token or a
\* throwing token lookup, a throwing fetch, a non-OK answer, an unreadable body
FailingStep(r) ==
  \/ \E t \in BOOLEAN : ReadGetsToken(r, t) /\ (t \/ authToken = NoToken)
  \/ \E b \in BOOLEAN :
       ReadResumes(r, b) /\ (b \/ reads[r].response.threw \/ ~reads[r].response.ok)

\* C6: every finished isFeatureEnabled call resolved to a boolean and did not
\* throw; a call that hits a failure finishes in that step with false.
C6_FailClosed ==
  /\ [](\A r \in Reads :
          reads[r].pc = "done" => (~reads[r].threw /\ reads[r].result \in BOOLEAN))
  /\ [][\A r \in Reads :
          FailingStep(r) => /\ reads'[r].pc = "done"
                            /\ ~reads'[r].threw
                            /\ reads'[r].result = FALSE]_vars

\* C6 witness: a check of a flag the store does not have resolved to false.
C6_Witness ==
  \E r \in Reads :
    /\ reads[r].pc = "done"
    /\ reads[r].via = "fail"
    /\ flagStore[reads[r].flagKey] = Absent
    /\ reads[r].result = FALSE
    /\ ~reads[r].threw

\* C7: cache entries are per (flagKey, userId): a verdict cached on behalf of
\* one user is never returned to a check made on behalf of another user.
C7_PerUserEntries ==
  [][\A r \in Reads, k \in Flags :
       (ServedFromCache(r, k) /\ authToken \in Users)
         => featureFlagCache[CacheKey(k)].owner = authToken]_vars

\* C8: a call never returns the value of an entry that is TTL old or older:
\* an answer from the cache comes from an entry younger than the TTL, a call
\* whose refetch fails returns false, and neither a read nor the passing of
\* time removes an entry (expired entries stay, they are only skipped).
C8_NoStalePastTTL ==
  [][/\ \A r \in Reads :
          /\ (reads'[r] # reads[r] /\ reads'[r].pc = "done" /\ reads'[r].via = "cache")
               => /\ CacheKey(reads'[r].flagKey) \in DOMAIN featureFlagCache
                  /\ now - featureFlagCache[CacheKey(reads'[r].flagKey)].timestamp < CACHE_TTL
          /\ (reads[r].pc = "response" /\ reads'[r].pc = "done"
                /\ (reads[r].response.threw \/ ~reads[r].response.ok))
               => (reads'[r].via = "fail" /\ reads'[r].result = FALSE)
     /\ (reads' # reads \/ now' # now)
          => \A c \in DOMAIN featureFlagCache : c \in DOMAIN featureFlagCache']_vars

\* C8 witness: the refetch of an expired entry failed; the call returned
\* false although the entry, still in the cache, says enabled.
C8_Witness ==
  \E r \in Reads :
    /\ reads[r].pc = "done"
    /\ reads[r].via = "fail"
    /\ reads[r].result = FALSE
    /\ CacheKey(reads[r].flagKey) \in DOMAIN featureFlagCache
    /\ featureFlagCache[CacheKey(reads[r].flagKey)].enabled
    /\ now - featureFlagCache[CacheKey(reads[r].flagKey)].timestamp >= CACHE_TTL

\* a createOverride/deleteOverride call resolves in this step
OverrideResolves ==
  /\ MutationSettles
  /\ mut.op \in OverrideOps
  /\ mut'.outcome = "resolved"

C10_RejectedMutations ==
  [][mut' # mut =>
       /\ (mut'.pc = "done" /\ mut.answer # "ok")
            => (mut'.outcome = "rejected" /\ featureFlagCache' = featureFlagCache)
       /\ mut'.pc # "done" => featureFlagCache' = featureFlagCache]_vars

\* C10 witness: createFlag with a key the store already has was rejected,
\* the call threw, and the cache still holds its entries.
C10_Witness ==
  /\ mut.pc = "done"
  /\ mut.op = "createFeatureFlag"
  /\ mut.answer = "DuplicateKey"
  /\ mut.outcome = "rejected"
  /\ DOMAIN featureFlagCache # {}

\* the service under the scheduling the event loop gives it: a continuation
\* whose awaited promise has settled is run (getAuthToken() settles locally,
\* a settled fetch resumes its caller); nothing makes the store or the
\* network settle a fetch, so the store's steps carry no fairness
ClientStep ==
  \/ \E r \in Reads, t \in BOOLEAN : ReadGetsToken(r, t)
  \/ \E r \in Reads, b \in BOOLEAN : ReadResumes(r, b)
  \/ \E t \in BOOLEAN : MutationGetsToken(t)
  \/ \E b \in BOOLEAN : MutationResumes(b)

FairSpec == Spec /\ WF_vars(ClientStep)

\* C11: every isFeatureEnabled call that is under way eventually resolves,
\* also when the store never answers its status request (a bounded wait ends
\* the fetch and the call returns false).
C11_BoundedWait ==
  \A r \in Reads :
    (reads[r].pc \in {"token", "fetch", "response"}) ~> (reads[r].pc = "done")

\* C12: a call sends its request once: a read or a mutation reaches the fetch
\* only from its token step, a call reaches its token step only when a caller
\* starts it, and once the fetch has settled the next step of the call ends
\* it; a failure ends the call with false (read) or a rejection (mutation).
C12_NoHiddenRetries ==
  [][/\ \A r \in Reads :
          /\ (reads'[r].pc = "fetch" /\ reads[r].pc # "fetch") => reads[r].pc = "token"
          /\ (reads'[r].pc = "token" /\ reads[r].pc # "token") => made' = made + 1
          /\ (reads[r].pc = "response" /\ reads'[r] # reads[r])
               => /\ reads'[r].pc = "done"
                  /\ (reads[r].response.threw \/ ~reads[r].response.ok)
                       => (reads'[r].result = FALSE /\ ~reads'[r].threw)
     /\ (mut'.pc = "fetch" /\ mut.pc # "fetch") => mut.pc = "token"
     /\ (mut'.pc = "token" /\ mut.pc # "token") => made' = made + 1
     /\ (mut.pc = "response" /\ mut' # mut)
          => /\ mut'.pc = "done"
             /\ mut.answer # "ok" => mut'.outcome = "rejected"]_vars

\* C12 witness: deleteFeatureFlag's request failed (fetch threw, or the store
\* refused) and the call ended rejected, with the flag still in the store.
C12_Witness ==
  /\ mut.pc = "done"
  /\ mut.op = "deleteFeatureFlag"
  /\ mut.answer \in {"threw", "Forbidden"}
  /\ mut.outcome = "rejected"
  /\ flagStore[mut.flagKey] # Absent

\* C13: no step of a getAllFeatureFlags call changes the verdict cache; a call
\* resolves only in the step that resumes it with the store's OK answer to
\* the request it sent itself, and it returns the flag list of that answer,
\* whatever the cache holds.
C13_ListPassthrough ==
  [][list' # list =>
       /\ featureFlagCache' = featureFlagCache
       /\ (list'.pc = "fetch") => (list.pc = "token" /\ list'.token # NoToken)
       /\ (list'.pc = "response") => list.pc = "fetch"
       /\ (list'.pc = "done" /\ list'.outcome = "resolved")
            => /\ list.pc = "response"
               /\ list.response.ok
               /\ list'.result = list.response.flags]_vars

\* C13 witness: the list call returned beta as the store has it now, while
\* the verdict cache still holds the opposite, older verdict of beta.
C13_Witness ==
  /\ list.pc = "done"
  /\ list.outcome = "resolved"
  /\ list.result["beta"] = flagStore["beta"]
  /\ CacheKey("beta") \in DOMAIN featureFlagCache
  /\ Stored(featureFlagCache[CacheKey("beta")].enabled) # list.result["beta"]

\* C14: every definition the admin form has handed to createFeatureFlag or
\* updateFeatureFlag has an integer percentage_rollout between 0 and 100
\* and, when both dates are set, a start_date not after the end_date.
C14_DefinitionInvariants ==
  handlers.submit.pc = "writing" => ValidDefinition(handlers.submit.data)

\* C15: the text shown to the admin after a failed create, update or delete
\* tells the error kind: two failures of different kinds never show the same
\* text (access denied never reads like not found).
C15_ErrorKindsShown ==
  \A a \in shown, b \in shown : a[2] = b[2] => a[1] = b[1]

\* the principal evaluate is asked for has an override
Overridden(e) == e.overrides[e.principal.userId] # Absent

\* C16: when the principal has an override, evaluate returns the override's
\* value whatever the enabled bit, rollout, tier requirement and date window
\* are; a change of another user's override leaves the principal's verdict
\* as it is.
C16_OverrideSupremacy ==
  /\ [](IF engine.verdict # None /\ Overridden(engine)
        THEN engine.verdict = Some(On(engine.overrides[engine.principal.userId]))
        ELSE TRUE)
  /\ [][\A u \in Users, v \in {Absent, "on", "off"} :
          (OverrideChanges(u, v) /\ u # engine.principal.userId)
            => Verdict(engine') = Verdict(engine)]_vars

\* C16 witness: a disabled flag with rollout 0, outside its window and above
\* the principal's tier evaluates to true for the overridden principal, while
\* another user has an override that says false.
C16_Witness ==
  /\ engine.verdict = Some(TRUE)
  /\ ~engine.flag.enabled
  /\ engine.flag.percentageRollout = 0
  /\ ~InWindow(engine.flag, engine.now)
  /\ TierBlocks(engine.flag, engine.principal)
  /\ engine.overrides[engine.principal.userId] = "on"
  /\ \E u \in Users \ {engine.principal.userId} : engine.overrides[u] = "off"

\* C17: a flag with enabled = false evaluates to false for every principal
\* without an override, whatever rollout, tier and date window are.
C17_KillSwitch ==
  (engine.verdict # None /\ ~engine.flag.enabled /\ ~Overridden(engine))
    => engine.verdict = Some(FALSE)

\* C17 witness: a disabled flag with rollout 100, inside its window and within
\* the principal's tier evaluated to false.
C17_Witness ==
  /\ engine.verdict = Some(FALSE)
  /\ ~engine.flag.enabled
  /\ ~Overridden(engine)
  /\ engine.flag.percentageRollout = 100
  /\ InWindow(engine.flag, engine.now)
  /\ ~TierBlocks(engine.flag, engine.principal)

\* C18 (as claimed): rollout 0 gives false to every principal without an
\* override, and rollout 100 gives true to every principal, always.
C18_BoundaryRollout ==
  engine.verdict # None =>
    /\ (engine.flag.percentageRollout = 0 /\ ~Overridden(engine))
         => engine.verdict = Some(FALSE)
    /\ engine.flag.percentageRollout = 100 => engine.verdict = Some(TRUE)

\* the rules before the rollout let the principal through
Eligible(e) ==
  /\ ~Overridden(e)
  /\ e.flag.enabled
  /\ InWindow(e.flag, e.now)
  /\ ~TierBlocks(e.flag, e.principal)

\* C18 (amended): rollout 0 gives false to every principal without an
\* override; rollout 100 gives true to every principal that the override,
\* kill switch, date window and tier rules let through.
C18_BoundaryRolloutEligible ==
  engine.verdict # None =>
    /\ (engine.flag.percentageRollout = 0 /\ ~Overridden(engine))
         => engine.verdict = Some(FALSE)
    /\ (engine.flag.percentageRollout = 100 /\ Eligible(engine))
         => engine.verdict = Some(TRUE)

\* C18 witness: at rollout 100 an eligible principal whose bucket is above
\* any partial rollout of the model evaluated to true.
C18_Witness ==
  /\ engine.verdict = Some(TRUE)
  /\ engine.flag.percentageRollout = 100
  /\ Eligible(engine)
  /\ \A r \in Rollouts \ {100} : Bucket(engine.flag.key, engine.principal.userId) >= r

\* tier a is at or above the minimum tier min (no minimum: every tier is)
AtOrAbove(tier, min) ==
  IF min = NoTier THEN TRUE ELSE TierOrdinal(tier) >= TierOrdinal(min)

ReportsEnabled ==
  \E c \in Checks :
    \/ /\ CheckResumes(c, FALSE)
       /\ ~checks[c].response.threw /\ checks[c].response.ok
       /\ checks[c].response.enabled
    \/ /\ checkFeatureFlag(c)
       /\ checks'[c].outcome = "cache"
       /\ gateCache[CacheKey(checks[c].flagKey)].enabled

\* a step in which a check fails: getToken or fetch threw, the store's answer
\* was not OK, or its body could not be read
CheckFails ==
  \E c \in Checks :
    \/ CheckGetsToken(c, TRUE)
    \/ \E b \in BOOLEAN :
         CheckResumes(c, b) /\ (b \/ checks[c].response.threw \/ ~checks[c].response.ok)

\* C20: as long as no check has given a verdict the gate draws the loading
\* indicator or the fallback; the children appear only in a step in which a
\* check reports the flag enabled; the step of a failed check leaves the
\* loading indicator or the fallback drawn, never the children.
C20_ChildrenOnlyWhenEnabled ==
  /\ [](gate.isEnabled = None => Render(gate) \in {"loading", "fallback"})
  /\ [][(Render(gate') = "children" /\ Render(gate) # "children") => ReportsEnabled]_vars
  /\ [][CheckFails => Render(gate') \in {"loading", "fallback"}]_vars

\* C20 witness: the store has the flag on and the user is signed in, but the
\* check of the flag failed and the gate draws the fallback.
C20_Witness ==
  /\ authToken # NoToken
  /\ flagStore[gate.flagKey] = "on"
  /\ \E c \in Checks :
       /\ checks[c].pc = "done"
       /\ checks[c].outcome = "failed"
       /\ checks[c].flagKey = gate.flagKey
  /\ \A c \in Checks : checks[c].pc \in {"idle", "done"}
  /\ gate.isEnabled = Some(FALSE)
  /\ Render(gate) = "fallback"

\* C21: a check that runs for a signed-out user ends at once with the
\* verdict false: it sends no request and leaves the cache unread, whatever
\* the cache holds; and once that check has run, the children are not drawn
\* while the user stays signed out, whatever an earlier fetch answers later.
C21_UnauthenticatedDisabled ==
  /\ [][\A c \in Checks :
          (checkFeatureFlag(c) /\ ~checks[c].isAuthenticated)
            => /\ checks'[c].pc = "done"
               /\ checks'[c].outcome = "unauthenticated"
               /\ gate'.isEnabled = Some(FALSE)
               /\ gateCache' = gateCache]_vars
  /\ []((authToken = NoToken /\ EffectsFlushed(checks)) => Render(gate) # "children")

\* the environment bit of a feature: its variable holds the text 'true'
EnvBit(feature) == staticGate.processEnv[feature] = "true"

C23_GateCacheInvalidated ==
  [][(MutationSettles /\ mut'.outcome = "resolved")
       => CacheKey(mut.flagKey) \notin DOMAIN gateCache']_vars

\* C24: the children are drawn only on a verdict for the flagKey the gate
\* has now: a render with another flagKey does not draw the children on the
\* verdict held from the key before, and a check that ends with the verdict
\* true is a check for the key the gate has at that moment.
C24_NoForeignVerdict ==
  [][/\ gate'.flagKey # gate.flagKey => Render(gate') # "children"
     /\ \A c \in Checks :
          (/\ checks[c].pc # "done"
           /\ checks'[c].pc = "done"
           /\ gate'.isEnabled = Some(TRUE))
            => checks[c].flagKey = gate.flagKey]_vars

\* C25: a call of isFeatureEnabled that is made, or asks for its token,
\* while getAuthToken yields no token ends with false, whatever the cache
\* holds (a call that got a token earlier is not meant).
C25_DisabledWithoutToken ==
  [][\A r \in Reads :
       (/\ reads[r].pc \in {"idle", "done", "token"}
        /\ reads'[r] # reads[r]
        /\ reads'[r].pc = "done"
        /\ authToken = NoToken)
         => reads'[r].result = FALSE]_vars

\* C26: when createFeatureFlag, updateFeatureFlag or createFeatureOverride
\* settles after the store answered OK, the cache is empty, whether the call
\* resolves or rejects (reading the response body may throw).
C26_WriteEndsInClearedCache ==
  [][(MutationSettles /\ ParsesBody(mut.op) /\ mut.answer = "ok")
       => DOMAIN featureFlagCache' = {}]_vars

\* C27: a status check that fails (non-OK answer, an exception, no token)
\* leaves its cache exactly as it was, for isFeatureEnabled of the service
\* and for checkFeatureFlag of the gate: no entry is written, removed or
\* given a new timestamp, so the failure is not cached as 'disabled'.
C27_FailureLeavesCache ==
  [][/\ \A r \in Reads :
          (/\ reads'[r] # reads[r]
           /\ reads'[r].pc = "done"
           /\ reads'[r].via = "fail")
            => featureFlagCache' = featureFlagCache
     /\ \A c \in Checks :
          (/\ checks'[c] # checks[c]
           /\ checks'[c].pc = "done"
           /\ checks'[c].outcome = "failed")
            => gateCache' = gateCache]_vars

\* C27 witness: both caches hold a verdict for beta that has outlived its
\* TTL; the service's call and the gate's check for beta have both failed
\* on the refetch, and the old entries are still there with their timestamps.
C27_Witness ==
  /\ now = 2 * Tick
  /\ reads[1].pc = "done" /\ reads[1].via = "fail" /\ reads[1].flagKey = "beta"
  /\ CacheKey("beta") \in DOMAIN featureFlagCache
  /\ featureFlagCache[CacheKey("beta")].timestamp = 0
  /\ \E c \in Checks :
       checks[c].pc = "done" /\ checks[c].outcome = "failed" /\ checks[c].flagKey = "beta"
  /\ CacheKey("beta") \in DOMAIN gateCache
  /\ gateCache[CacheKey("beta")].timestamp = 0

\* C28: in every state of the admin panel at most one of isCreating,
\* isEditing and isManagingOverrides is true, and while isEditing or
\* isManagingOverrides is true a flag is selected.
C28_ModeConsistency ==
  /\ ~(manager.isCreating /\ manager.isEditing)
  /\ ~(manager.isCreating /\ manager.isManagingOverrides)
  /\ ~(manager.isEditing /\ manager.isManagingOverrides)
  /\ (manager.isEditing \/ manager.isManagingOverrides) => manager.selectedFlag # NoFlag

\* C29: from a completed logout until the next successful login,
\* isAuthenticated() is false, getToken() is null and no user is held, so
\* getCurrentUser() returns null, whatever was in flight when logout ran;
\* and a login that fails leaves token, user and localStorage as they were.
C29_LogoutIsFinal ==
  /\ [](auth.loggedOut =>
          /\ ~isAuthenticated(auth)
          /\ getToken(auth) = NoToken
          /\ auth.user = NoUser)
  /\ [][(auth.login.pc = "post" /\ auth'.login.outcome = "rejected")
          => /\ auth'.token = auth.token
             /\ auth'.user = auth.user
             /\ auth'.stored = auth.stored]_vars

\* C30: the notifications of the list have pairwise distinct ids, and a
\* step that marks one id as read changes at most one notification and
\* lowers unreadCount by at most one.
C30_DistinctIds ==
  /\ [](\A i, j \in DOMAIN notes.notifications :
          i # j => notes.notifications[i].id # notes.notifications[j].id)
  /\ [][\A id \in {notes.notifications[i].id : i \in DOMAIN notes.notifications} :
          notes'.notifications = MarkedAsRead(notes.notifications, id)
            => /\ unreadCount(notes.notifications) - unreadCount(notes'.notifications) <= 1
               /\ Cardinality({i \in DOMAIN notes.notifications :
                                 notes'.notifications[i] # notes.notifications[i]}) <= 1]_vars

====
